---- MODULE Spec2Model ----
(***************************************************************************)
(* Model of lobe-export.py: the export pipeline (read_db, calc_phashes on  *)
(* a multiprocessing Pool with imap/chunksize=5, copy_files, to_csv) and   *)
(* the orchestration in __main__, including KeyboardInterrupt delivery.    *)
(*                                                                         *)
(* Three specifications share the definitions:                             *)
(*   Spec      one run of __main__                                         *)
(*   SpecPool  calc_phashes called on an arbitrary list of names           *)
(*   SpecCopy  copy_files called (repeatedly) on an arbitrary record list  *)
(***************************************************************************)
EXTENDS Integers, Sequences, FiniteSets, TLC

\* ---- bounds of the model ----
MaxRows == 2
MaxRecords == 3
MaxNames == 7
MaxWorkers == 2
MaxRuns == 2

\* pool.imap(..., chunksize=5)
ChunkSize == 5

\* ---- input domains ----
Hashes == {"h1", "h2"}
Labels == {"cat", "dog"}
Dates == {1, 2}
\* what lies at blob_path / hash:
\*   notfile    nothing, or something that is not a regular file
\*   garbage    a regular file Image.open() rejects
\*   truncated  a regular file whose header opens but whose pixels do not load
\*   image      a decodable image
BlobKinds == {"notfile", "garbage", "truncated", "image"}
OutKinds == {"dir", "file", "missing"}

RowVals == [hash : Hashes, label : Labels, date : Dates]
None == "None"
NoCol == <<"no phash column">>

VARIABLES
    db,         \* rows of the join, in table order (before ORDER BY)
    blob,       \* hash -> BlobKinds: the blob directory
    phashFlag,  \* args.phash
    outKind,    \* what output_path is on disk
    pc,         \* next statement of the running program, or how it ended
    exc,        \* the exception that ended the run, "none" otherwise
    df,         \* the DataFrame rows (<<>> until read_db has returned)
    names,      \* list(df['hash'])
    taskq,      \* Pool: chunk numbers not yet taken by a worker
    busy,       \* Pool: worker -> chunk it is computing (0 = idle)
    items,      \* IMapIterator._items
    unsorted,   \* IMapIterator._unsorted
    index,      \* IMapIterator._index (1-based)
    results,    \* the list being built by list(...)
    phash,      \* df['phash'], NoCol while the column does not exist
    i,          \* copy_files: position of the loop
    dirs,       \* output tree: label directories
    files,      \* output tree: <<label, hash>> -> content
    run_no,     \* how many times copy_files has been started
    csv         \* the manifest file: [exists, rows]

vars == <<db, blob, phashFlag, outKind, pc, exc, df, names, taskq, busy,
          items, unsorted, index, results, phash, i, dirs, files, run_no, csv>>

inputVars == <<db, blob, phashFlag, outKind>>
poolVars == <<taskq, busy, items, unsorted, index, results>>
treeVars == <<dirs, files>>

SeqsUpTo(S, n) == UNION {[1..k -> S] : k \in 0..n}
Min(a, b) == IF a < b THEN a ELSE b

\* ---- read_db ----
\* ORDER BY l.modified (ascending)
OrderBy_desc(s) == \A a, b \in 1..Len(s) : a < b => s[a].date >= s[b].date
OrderBy(s) == \A a, b \in 1..Len(s) : a < b => s[a].date <= s[b].date

\* the record built from table row k
Item(t, k) == [example_id |-> k, hash |-> t[k].hash,
               label |-> t[k].label, date |-> t[k].date]

\* every list the query may produce: the rows, ordered by date; rows with
\* equal dates come in an order SQL leaves open
read_db(t) ==
    {s \in {[k \in 1..Len(t) |-> Item(t, p[k])] : p \in Permutations(1..Len(t))} :
        OrderBy(s)}

\* ---- fingerprinting of one identifier ----
\* get_img: None when not a file or when Image.open raises
get_img(photo_id) ==
    IF blob[photo_id] = "notfile" THEN None
    ELSE IF blob[photo_id] = "garbage" THEN None
    ELSE "img"

\* str(imagehash.phash(img)); phash loads the pixels and raises if it cannot
PHashStr(photo_id) == IF photo_id = "h1" THEN "ph_a" ELSE "ph_b"
get_image_phash(photo_id) ==
    IF blob[photo_id] = "truncated"
    THEN [raised |-> TRUE, value |-> None]
    ELSE [raised |-> FALSE, value |-> PHashStr(photo_id)]

run(photo_id) ==
    IF get_img(photo_id) = None
    THEN [raised |-> FALSE, value |-> None]
    ELSE get_image_phash(photo_id)

\* ---- Pool.imap with chunksize ----
NChunks(n) == (n + ChunkSize - 1) \div ChunkSize
ChunkItems(c) == SubSeq(names, (c - 1) * ChunkSize + 1, Min(c * ChunkSize, Len(names)))

\* what a worker sends back for one chunk: (success, value)
mapstar(chunk) ==
    IF \E k \in 1..Len(chunk) : run(chunk[k]).raised
    THEN [ok |-> FALSE, value |-> <<>>]
    ELSE [ok |-> TRUE, value |-> [k \in 1..Len(chunk) |-> run(chunk[k]).value]]

\* imap yields in submission order: a chunk result is queued only when it is
\* the next one expected
InOrder_unordered(c, idx) == TRUE
InOrder(c, idx) == c = idx

RECURSIVE Drain(_, _, _)
Drain(its, uns, idx) ==
    IF idx \in DOMAIN uns
    THEN Drain(Append(its, uns[idx]),
               [k \in DOMAIN uns \ {idx} |-> uns[k]], idx + 1)
    ELSE [items |-> its, unsorted |-> uns, index |-> idx]

IMapSet(c, res) ==
    IF InOrder(c, index)
    THEN Drain(Append(items, res), unsorted, index + 1)
    ELSE [items |-> items, unsorted |-> (c :> res) @@ unsorted, index |-> index]

\* ---- copy_files ----
Content(h) == <<h, blob[h]>>

\* b.parent.mkdir(parents=True, exist_ok=True)
mkdir(ds, d) == [raised |-> FALSE, dirs |-> ds \cup {d}]

\* shutil.copy2(a, b): raises when a is not a file, else b holds a's content
copy2_skip(fs, a, b) ==
    IF blob[a] = "notfile"
    THEN [raised |-> FALSE, files |-> fs]
    ELSE [raised |-> FALSE, files |-> (b :> Content(a)) @@ fs]
copy2_append(fs, a, b) ==
    IF blob[a] = "notfile"
    THEN [raised |-> TRUE, files |-> fs]
    ELSE [raised |-> FALSE,
          files |-> (b :> ((IF b \in DOMAIN fs THEN fs[b] ELSE <<>>) \o Content(a))) @@ fs]
copy2(fs, a, b) ==
    IF blob[a] = "notfile"
    THEN [raised |-> TRUE, files |-> fs]
    ELSE [raised |-> FALSE, files |-> (b :> Content(a)) @@ fs]

\* b = base_out / subdir / f"{f}.jpg"
OutPath_nolabel(x) == <<".", x.hash>>
OutPath(x) == <<x.label, x.hash>>

\* for i, x in df.iterrows(): the loop is over when every row was visited
LoopDone_short(k, n) == k >= n
LoopDone(k, n) == k > n

\* ---- to_csv ----
\* row k of the table as serialised: the columns of df, plus phash if present
CsvRow(k) == [example_id |-> df[k].example_id, hash |-> df[k].hash,
              label |-> df[k].label, date |-> df[k].date,
              phash |-> IF phash = NoCol THEN "" ELSE phash[k]]

\* ---- the try block of __main__ ----
InTry(p) == p \in {"try", "pool", "copy", "to_csv", "writing"}
Running(p) == p \in {"read_db", "is_dir", "try", "pool", "copy", "to_csv", "writing"}

NoPool == /\ taskq = <<>> /\ busy = <<>> /\ items = <<>>
          /\ unsorted = <<>> /\ index = 1 /\ results = <<>>

Init ==
    /\ db \in SeqsUpTo(RowVals, MaxRows)
    /\ blob \in [Hashes -> BlobKinds]
    /\ phashFlag \in BOOLEAN
    /\ outKind \in OutKinds
    /\ pc = "read_db" /\ exc = "none"
    /\ df = <<>> /\ names = <<>>
    /\ NoPool /\ phash = NoCol
    /\ i = 1 /\ dirs = {} /\ files = <<>> /\ run_no = 1
    /\ csv = [exists |-> FALSE, rows |-> <<>>]

\* lines 132-134: df = read_db(db_path); names = list(df['hash'])
\* (an empty result is a DataFrame without columns: df['hash'] raises KeyError)
ReadDb ==
    /\ pc = "read_db"
    /\ \E s \in read_db(db) :
        /\ df' = s
        /\ names' = [k \in 1..Len(s) |-> s[k].hash]
        /\ IF Len(s) = 0
           THEN pc' = "traceback" /\ exc' = "KeyError"
           ELSE pc' = "is_dir" /\ exc' = exc
    /\ UNCHANGED <<inputVars, poolVars, phash, i, treeVars, run_no, csv>>

\* lines 136-143: the output location must be an existing directory
OutputRejected ==
    /\ pc = "is_dir" /\ outKind # "dir"
    /\ pc' = "exit1"
    /\ UNCHANGED <<inputVars, exc, df, names, poolVars, phash, i, treeVars, run_no, csv>>

OutputAccepted ==
    /\ pc = "is_dir" /\ outKind = "dir"
    /\ pc' = "try"
    /\ UNCHANGED <<inputVars, exc, df, names, poolVars, phash, i, treeVars, run_no, csv>>

\* line 146, args.phash false: straight to copy_files
PhashSkip ==
    /\ pc = "try" /\ ~phashFlag
    /\ pc' = "copy" /\ i' = 1
    /\ UNCHANGED <<inputVars, exc, df, names, poolVars, phash, treeVars, run_no, csv>>

\* lines 147-149 and 73-75: Pool(n), the chunks are queued
PhashStart ==
    /\ pc = "try" /\ phashFlag
    /\ \E n \in 1..MaxWorkers : busy' = [w \in 1..n |-> 0]
    /\ taskq' = [c \in 1..NChunks(Len(names)) |-> c]
    /\ items' = <<>> /\ unsorted' = <<>> /\ index' = 1 /\ results' = <<>>
    /\ pc' = "pool"
    /\ UNCHANGED <<inputVars, exc, df, names, phash, i, treeVars, run_no, csv>>

\* a worker takes the next chunk
WorkerTake(w) ==
    /\ pc = "pool" /\ busy[w] = 0 /\ taskq # <<>>
    /\ busy' = [busy EXCEPT ![w] = Head(taskq)]
    /\ taskq' = Tail(taskq)
    /\ UNCHANGED <<inputVars, pc, exc, df, names, items, unsorted, index, results,
                   phash, i, treeVars, run_no, csv>>

\* a worker finishes its chunk: run_unpack on each item, result to the iterator
WorkerFinish(w) ==
    /\ pc = "pool" /\ busy[w] # 0
    /\ LET r == IMapSet(busy[w], mapstar(ChunkItems(busy[w]))) IN
        /\ items' = r.items /\ unsorted' = r.unsorted /\ index' = r.index
    /\ busy' = [busy EXCEPT ![w] = 0]
    /\ UNCHANGED <<inputVars, pc, exc, df, names, taskq, results,
                   phash, i, treeVars, run_no, csv>>

\* list(...) takes the next chunk result; a failed chunk re-raises in the parent
ImapNext ==
    /\ pc = "pool" /\ items # <<>>
    /\ Head(items).ok
    /\ results' = results \o Head(items).value
    /\ items' = Tail(items)
    /\ UNCHANGED <<inputVars, pc, exc, df, names, taskq, busy, unsorted, index,
                   phash, i, treeVars, run_no, csv>>

ImapRaise ==
    /\ pc = "pool" /\ items # <<>>
    /\ ~Head(items).ok
    /\ items' = Tail(items)
    /\ pc' = "traceback" /\ exc' = "OSError"
    /\ UNCHANGED <<inputVars, df, names, taskq, busy, unsorted, index, results,
                   phash, i, treeVars, run_no, csv>>

\* the iterator is exhausted: calc_phashes returns, line 150 df['phash'] = phash
calc_phashes ==
    /\ pc = "pool" /\ items = <<>> /\ index = NChunks(Len(names)) + 1
    /\ phash' = results
    /\ pc' = "copy" /\ i' = 1
    /\ UNCHANGED <<inputVars, exc, df, names, poolVars, treeVars, run_no, csv>>

\* lines 80-86, one iteration of the loop that succeeds
CopyStep ==
    /\ pc = "copy" /\ ~LoopDone(i, Len(df))
    /\ LET x == df[i]
           m == mkdir(dirs, x.label)
           c == copy2(files, x.hash, OutPath(x)) IN
        /\ ~m.raised /\ ~c.raised
        /\ dirs' = m.dirs
        /\ files' = c.files
    /\ i' = i + 1
    /\ UNCHANGED <<inputVars, pc, exc, df, names, poolVars, phash, run_no, csv>>

\* lines 80-86, the iteration that raises: the error leaves copy_files, and in
\* __main__ it is not a KeyboardInterrupt, so it ends the program
CopyFail ==
    /\ pc = "copy" /\ ~LoopDone(i, Len(df))
    /\ LET x == df[i]
           m == mkdir(dirs, x.label)
           c == copy2(files, x.hash, OutPath(x)) IN
        /\ m.raised \/ c.raised
        /\ dirs' = IF m.raised THEN dirs ELSE m.dirs
        /\ exc' = IF m.raised THEN "FileExistsError" ELSE "FileNotFoundError"
    /\ pc' = "traceback"
    /\ UNCHANGED <<inputVars, df, names, poolVars, phash, i, files, run_no, csv>>

\* copy_files returns; line 153
CopyReturn ==
    /\ pc = "copy" /\ LoopDone(i, Len(df))
    /\ pc' = "to_csv"
    /\ UNCHANGED <<inputVars, exc, df, names, poolVars, phash, i, treeVars, run_no, csv>>

\* line 154, df.to_csv: the file is opened for writing (created or truncated),
\* the rows are written in table order, the file is closed
ToCsvOpen ==
    /\ pc = "to_csv"
    /\ csv' = [exists |-> TRUE, rows |-> <<>>]
    /\ pc' = "writing"
    /\ UNCHANGED <<inputVars, exc, df, names, poolVars, phash, i, treeVars, run_no>>

ToCsvWrite ==
    /\ pc = "writing" /\ Len(csv.rows) < Len(df)
    /\ csv' = [csv EXCEPT !.rows = Append(@, CsvRow(Len(csv.rows) + 1))]
    /\ UNCHANGED <<inputVars, pc, exc, df, names, poolVars, phash, i, treeVars, run_no>>

ToCsvClose ==
    /\ pc = "writing" /\ Len(csv.rows) = Len(df)
    /\ pc' = "done"
    /\ UNCHANGED <<inputVars, exc, df, names, poolVars, phash, i, treeVars, run_no, csv>>

\* SIGINT while the program runs: inside the try block it is caught and the
\* program calls exit(); outside it is an uncaught exception
KeyboardInterrupt ==
    /\ Running(pc)
    /\ exc' = "KeyboardInterrupt"
    /\ pc' = IF InTry(pc) THEN "exit" ELSE "traceback"
    /\ UNCHANGED <<inputVars, df, names, poolVars, phash, i, treeVars, run_no, csv>>

Next ==
    \/ ReadDb
    \/ OutputRejected
    \/ OutputAccepted
    \/ PhashSkip
    \/ PhashStart
    \/ \E w \in DOMAIN busy : WorkerTake(w)
    \/ \E w \in DOMAIN busy : WorkerFinish(w)
    \/ ImapNext
    \/ ImapRaise
    \/ calc_phashes
    \/ CopyStep
    \/ CopyFail
    \/ CopyReturn
    \/ ToCsvOpen
    \/ ToCsvWrite
    \/ ToCsvClose
    \/ KeyboardInterrupt

Spec == Init /\ [][Next]_vars

\* ---- calc_phashes on its own ----
InitPool ==
    /\ names \in SeqsUpTo(Hashes, MaxNames)
    /\ blob \in [Hashes -> BlobKinds]
    /\ db = <<>> /\ df = <<>>
    /\ phashFlag = TRUE /\ outKind = "dir"
    /\ pc = "try" /\ exc = "none"
    /\ NoPool /\ phash = NoCol
    /\ i = 1 /\ dirs = {} /\ files = <<>> /\ run_no = 1
    /\ csv = [exists |-> FALSE, rows |-> <<>>]

NextPool ==
    \/ PhashStart
    \/ \E w \in DOMAIN busy : WorkerTake(w)
    \/ \E w \in DOMAIN busy : WorkerFinish(w)
    \/ ImapNext
    \/ ImapRaise
    \/ calc_phashes

SpecPool == InitPool /\ [][NextPool]_vars

\* ---- copy_files on its own, run again over the same directories ----
CopyAgain ==
    /\ \/ pc = "to_csv"
       \/ pc = "traceback" /\ exc \in {"FileNotFoundError", "FileExistsError"}
    /\ run_no < MaxRuns
    /\ pc' = "copy" /\ exc' = "none" /\ i' = 1
    /\ run_no' = run_no + 1
    /\ UNCHANGED <<inputVars, df, names, poolVars, phash, treeVars, csv>>

InitCopy ==
    /\ \E t \in SeqsUpTo(RowVals, MaxRecords) :
        /\ db = t
        /\ df = [k \in 1..Len(t) |-> Item(t, k)]
        /\ names = [k \in 1..Len(t) |-> t[k].hash]
    /\ blob \in [Hashes -> BlobKinds]
    /\ phashFlag = FALSE /\ outKind = "dir"
    /\ pc = "copy" /\ exc = "none"
    /\ NoPool /\ phash = NoCol
    /\ i = 1 /\ dirs = {} /\ files = <<>> /\ run_no = 1
    /\ csv = [exists |-> FALSE, rows |-> <<>>]

NextCopy ==
    \/ CopyStep
    \/ CopyFail
    \/ CopyReturn
    \/ CopyAgain

SpecCopy == InitCopy /\ [][NextCopy]_vars

TypeOK ==
    /\ pc \in {"read_db", "is_dir", "try", "pool", "copy", "to_csv", "writing",
               "done", "exit1", "exit", "traceback"}
    /\ exc \in {"none", "KeyError", "OSError", "FileNotFoundError",
                "FileExistsError", "KeyboardInterrupt"}
    /\ i \in 1..(Len(df) + 1)
    /\ dirs \subseteq Labels
    /\ DOMAIN files \subseteq Labels \X Hashes

\* ---------------------------------------------------------------------
\* Properties
\* ---------------------------------------------------------------------

\* C1 (SpecPool): every result list(...) has collected so far is the outcome
\* of the name at the same position, and the list calc_phashes returns has
\* exactly one result per name, in the order of names, whichever worker
\* finished which chunk first.
C1_InputAligned ==
    /\ Len(results) <= Len(names)
    /\ \A k \in 1..Len(results) :
        ~run(names[k]).raised /\ results[k] = run(names[k]).value
    /\ phash # NoCol =>
        /\ Len(phash) = Len(names)
        /\ \A k \in 1..Len(names) : phash[k] = run(names[k]).value

\* calc_phashes has returned more than one chunk, computed by more than one
\* worker, with results that differ between the first and the last position
C1_Witness ==
    /\ phash # NoCol /\ pc = "copy"
    /\ Len(phash) > ChunkSize
    /\ Cardinality(DOMAIN busy) > 1
    /\ phash[1] # phash[Len(phash)]

\* C2 (SpecPool), as claimed: fingerprinting never fails as a batch, and every
\* identifier whose blob is not a decodable image (not a regular file, rejected
\* when opened, or failing when its pixels are loaded) has None at its position.
C2_UndecodableYieldsNone ==
    /\ exc = "none"
    /\ phash # NoCol =>
        \A k \in 1..Len(names) : blob[names[k]] # "image" => phash[k] = None

\* C3 (Spec), as claimed: when the run is rejected for its output location,
\* no stage has executed: no metadata read, no fingerprint, no copy, no manifest.
C3_RejectedBeforeAnyStage ==
    pc = "exit1" =>
        /\ df = <<>> /\ names = <<>>
        /\ phash = NoCol
        /\ dirs = {} /\ files = <<>>
        /\ ~csv.exists

\* C4 (Spec), as claimed: a run ended by a KeyboardInterrupt has produced no
\* manifest file.
C4_NoManifestWhenInterrupted ==
    exc = "KeyboardInterrupt" => ~csv.exists

\* C5 (Spec), as claimed: a KeyboardInterrupt, wherever it is delivered, ends
\* the program through the handled exit path, never through a traceback.
C5_InterruptExitsCleanly ==
    exc = "KeyboardInterrupt" => pc = "exit"

\* C6 (Spec): the manifest holds the rows of the table read_db returned, in
\* that order and one per record (a prefix while to_csv is writing, all of them
\* once it is done); that order is ascending by date and holds every row of the
\* query exactly once; with fingerprinting on, the phash of a row is the
\* fingerprint outcome of that row's hash; and no step after read_db changes
\* the table.
C6_Rows ==
    /\ csv.exists =>
        /\ Len(df) = Len(db)
        /\ {df[k].example_id : k \in 1..Len(df)} = 1..Len(db)
        /\ \A k \in 1..Len(df) : df[k] = Item(db, df[k].example_id)
        /\ \A a, b \in 1..Len(df) : a < b => df[a].date <= df[b].date
        /\ Len(csv.rows) <= Len(df)
        /\ \A k \in 1..Len(csv.rows) :
            csv.rows[k] = [example_id |-> df[k].example_id, hash |-> df[k].hash,
                           label |-> df[k].label, date |-> df[k].date,
                           phash |-> IF phashFlag THEN run(df[k].hash).value ELSE ""]
    /\ pc = "done" => csv.exists /\ Len(csv.rows) = Len(df)

C6_ManifestOrder ==
    /\ []C6_Rows
    /\ [][pc # "read_db" => df' = df]_vars

\* a finished manifest with fingerprints whose rows read_db had to reorder
C6_Witness ==
    /\ pc = "done" /\ phash # NoCol
    /\ Len(csv.rows) >= 2
    /\ csv.rows[1].example_id > csv.rows[2].example_id
    /\ csv.rows[1].phash # csv.rows[2].phash

\* copy_files has run: it returned or it raised
CopyRan == pc = "to_csv" \/ (pc = "traceback" /\ exc # "KeyboardInterrupt")
HasBlob(h) == blob[h] # "notfile"
\* the records before the first one whose blob is missing
Processed == {k \in 1..Len(df) : \A j \in 1..k : HasBlob(df[j].hash)}

\* C7 (SpecCopy), as claimed: after copy_files has run, every content_hash of
\* the records that has a backing blob has exactly one output file, under the
\* label of one of its records.
C7_ExactlyOneFilePerBlob ==
    CopyRan =>
        \A h \in {df[k].hash : k \in 1..Len(df)} :
            HasBlob(h) =>
                /\ Cardinality({p \in DOMAIN files : p[2] = h}) = 1
                /\ \E k \in 1..Len(df) :
                    df[k].hash = h /\ <<df[k].label, h>> \in DOMAIN files

\* C7 (SpecCopy), amended: after copy_files has run, every content_hash with a
\* backing blob has exactly one output file for each label it occurs under
\* among the records before the first record whose blob is missing (all the
\* records when none is missing), that file holds the blob's content, and it
\* has no other file.
C7_OneFilePerProcessedLabel ==
    CopyRan =>
        \A h \in Hashes :
            HasBlob(h) =>
                /\ {p[1] : p \in {q \in DOMAIN files : q[2] = h}}
                     = {df[k].label : k \in {j \in Processed : df[j].hash = h}}
                /\ \A p \in DOMAIN files : p[2] = h => files[p] = Content(h)

\* copy_files stopped at a missing blob after copying one hash under two labels
C7_Witness ==
    /\ pc = "traceback" /\ run_no = 1
    /\ \E h \in Hashes : Cardinality({p \in DOMAIN files : p[2] = h}) = 2

\* C8 (SpecCopy): copy_files raises exactly when some record's blob is missing;
\* it raises at the first such record, every record before it has its file
\* with the blob's content, and nothing was done for any record after it: the
\* files are those of the records before it and the directories those of the
\* records up to it.
C8_AbortAtFirstMissing ==
    /\ pc = "to_csv" => \A k \in 1..Len(df) : HasBlob(df[k].hash)
    /\ pc = "traceback" =>
        /\ exc = "FileNotFoundError"
        /\ i \in 1..Len(df)
        /\ ~HasBlob(df[i].hash)
        /\ \A j \in 1..(i - 1) :
            /\ HasBlob(df[j].hash)
            /\ <<df[j].label, df[j].hash>> \in DOMAIN files
            /\ files[<<df[j].label, df[j].hash>>] = Content(df[j].hash)
        /\ DOMAIN files = {<<df[j].label, df[j].hash>> : j \in 1..(i - 1)}
        /\ dirs = {df[j].label : j \in 1..i}

\* the first run stopped at a record with records before and after it, the
\* later one under a label no earlier record has
C8_Witness ==
    /\ pc = "traceback" /\ run_no = 1
    /\ i > 1 /\ i < Len(df)
    /\ df[Len(df)].label \notin dirs
    /\ HasBlob(df[Len(df)].hash)

\* C9 (SpecCopy): from the start of a second run of copy_files on, no step
\* changes the output tree (directories, paths, content of each file), and
\* copy_files never raises unless a blob of the records is missing.
C9_SecondRunChangesNothing ==
    /\ [][run_no' >= 2 => (dirs' = dirs /\ files' = files)]_vars
    /\ [](pc = "traceback" => \E k \in 1..Len(df) : ~HasBlob(df[k].hash))

\* a second run has completed over a tree of at least two files
C9_Witness ==
    /\ run_no = 2 /\ pc = "to_csv"
    /\ Cardinality(DOMAIN files) >= 2

\* C10 (Spec): whenever the manifest file exists, every record has its file
\* with the blob's content and, if fingerprinting was requested, the phash
\* column is there; a run whose copy loop raised has no manifest.
C10_ManifestLast ==
    /\ csv.exists =>
        /\ \A k \in 1..Len(df) :
            /\ <<df[k].label, df[k].hash>> \in DOMAIN files
            /\ files[<<df[k].label, df[k].hash>>] = Content(df[k].hash)
        /\ phashFlag => phash # NoCol /\ Len(phash) = Len(df)
    /\ exc \in {"FileNotFoundError", "OSError", "KeyError"} => ~csv.exists

\* a manifest exists for at least two records, with fingerprints
C10_Witness ==
    /\ csv.exists /\ phashFlag
    /\ Len(df) >= 2
    /\ Cardinality(DOMAIN files) >= 2
====
